---- MODULE Spec2Model ----
(***************************************************************************)
(* WorkflowOrchestrator (workflow-orchestrator-redis.ts): the per-process  *)
(* subscriber registry, the notification fan-out over the Redis channel of *)
(* a workflow, and the facade operations run / setStepSuccess /            *)
(* setStepFailure.                                                         *)
(*                                                                         *)
(* Every process holds its own static state (instanceId, subscribers and   *)
(* the two Redis connections), so every variable is indexed by instance.   *)
(***************************************************************************)
EXTENDS Integers, Sequences, FiniteSets, TLC

(***************************************************************************)
(* Bounds of the model.                                                    *)
(***************************************************************************)
\* registrations one instance may hold (subscribe never refuses; the model stops subscribing here)
MaxRegs == 2
\* envelopes the broker may hold undelivered for one instance
MaxInbox == 1
\* deliveries of one published envelope to one instance (at-least-once broker)
MaxCopies == 1
\* envelopes the broker may hold undelivered for one instance in SpecFacade,
\* where one engine call fires several events
MaxFacadeInbox == 3
\* registrations one instance may hold in SpecFacade
MaxFacadeRegs == 1
\* the count of finish events of one transaction stops here
MaxFinishes == 2
\* registrations and subscribe ranks where the order of the subscribe calls is followed
MaxOrderRegs == 2
MaxSeq == 3
\* characters of one field of an idempotency key, and of a key given as a string
MaxFieldLen == 1
MaxKeyLen == 3

(***************************************************************************)
(* Values.                                                                 *)
(***************************************************************************)
\* the processes; instanceId = ulid() is unique per process, the name stands for it
Instances == {"A", "B"}
WorkflowIds == {"wf1", "wf2"}
\* const AnySubscriber = "any": the inner key of the workflow-wide registrations
AnySubscriber == "any"
\* transaction ids a caller may pass: any string, the string "any" included
TransactionIds == {"tx1", "tx2", "any"}
\* the transaction ids instance A subscribes to in Spec
WatchedTransactionIds == {"tx1", "any"}
\* an absent (or empty, hence falsy) optional string
Undefined == "undefined"
\* the subscriber functions of a process
Callbacks == {"f", "g"}
\* the one instance A subscribes in Spec
FanoutCallbacks == {"f"}
SubscriberIds == {"h1", "h2"}
\* the transaction the facade operations of SpecFacade are about
FacadeTransactionIds == {"tx1"}
\* wf1 has one step that completes later, by setStepSuccess / setStepFailure; the
\* step of wf2 completes within run
AsyncWorkflows == {"wf1"}
StepId == "step1"
\* the callback each instance subscribes in SpecFacade
FacadeCallback == [i \in Instances |-> IF i = "A" THEN "f" ELSE "g"]
\* the custom handler of the caller that throws, if one does: the handler of the
\* finish slot, which the engine calls once the transaction is terminal
FacadeThrowing == {Undefined, "onFinish"}
\* throw new Error("Workflow ID is required") / ("TransactionId ID is required")
MissingWorkflowId == "Workflow ID is required"
MissingTransactionId == "TransactionId ID is required"
\* the engine has no running transaction of that id
TransactionNotFound == "TransactionNotFound"
\* the arrow function handlerIndex builds on every call: a new object, equal to no stored handler
FreshPredicate == "(s) => s === subscriber || s._id === subscriberId"

Truthy(v) == v # Undefined

VARIABLES
  subscribers,  \* [instance -> Map<WorkflowId, Map<TransactionId, SubscriberHandler[]>>]
  handlerId,    \* [instance -> [callback -> its _id property]]
  channels,     \* [instance -> channel names redisSubscriber has subscribed to]
  inbox,        \* [instance -> envelopes the broker still has to deliver to it]
  transactions, \* the engine's store: [<<workflowId, transactionId>> -> state of the transaction]
  pending,      \* [instance -> the facade call that awaits its engine call there]
  finishes,     \* [<<workflowId, transactionId>> -> onFinish events notified so far]
  last          \* what the last step did: the operation; the handlers it removed
                \* (how many, from which key); the event it delivered (on which
                \* instance, from which origin), the handlers it invoked and those
                \* the instance had invoked for the same event before; the facade
                \* call it belongs to, the custom handlers that call invoked and
                \* the events it notified

facadeVars == <<transactions, pending, finishes>>
registryVars == <<subscribers, handlerId, channels>>
vars == <<subscribers, handlerId, channels, inbox, transactions, pending, finishes, last>>

(***************************************************************************)
(* Map and array helpers.                                                  *)
(***************************************************************************)
\* new Map().  An inner map (transaction key -> handlers) is read only through
\* get(key) ?? [], so a key that is absent and a key that holds [] are one state
EmptyMap == [k \in {} |-> <<>>]
NoSubscribers == [k \in TransactionIds |-> <<>>]

\* map.get(k) ?? dflt
Get(m, k, dflt) == IF k \in DOMAIN m THEN m[k] ELSE dflt

\* map.set(k, v)
MapSet(m, k, v) == [x \in (DOMAIN m) \cup {k} |-> IF x = k THEN v ELSE m[x]]

\* Array.prototype.indexOf(x): the first index (from 0) of an element === x, or -1
IndexOf(arr, x) ==
  IF \E n \in 1..Len(arr) : arr[n] = x
  THEN (CHOOSE n \in 1..Len(arr) : arr[n] = x /\ \A m \in 1..(n - 1) : arr[m] # x) - 1
  ELSE -1

\* Array.prototype.slice(start, end): a copy of arr[start..end-1]; arr itself is not changed
Slice(arr, start, end) ==
  IF end <= start THEN <<>> ELSE SubSeq(arr, start + 1, IF end > Len(arr) THEN Len(arr) ELSE end)

\* private static getChannelName(workflowId)
getChannelName(workflowId) == <<"orchestrator", workflowId>>

(***************************************************************************)
(* A stored handler.  The array holds the function object: .handler.  The  *)
(* fields .sid and .tid remember the subscriberId and transactionId the    *)
(* subscribe call was given; no operation reads them, only the properties  *)
(* do (the code keeps the id on the function object itself: handlerId).    *)
(***************************************************************************)
\* the elements of a sequence
Range(arr) == {arr[n] : n \in 1..Len(arr)}

Registration(subscriber, subscriberId, transactionId) ==
  [handler |-> subscriber, sid |-> subscriberId, tid |-> transactionId, seq |-> 0]

Handlers(arr) == [n \in 1..Len(arr) |-> arr[n].handler]

\* the inner key a transactionId argument selects: if (transactionId) ... else AnySubscriber
KeyOf(transactionId) == IF Truthy(transactionId) THEN transactionId ELSE AnySubscriber

\* the handlers stored for instance i under (workflowId, key)
Entries(subs, i, workflowId, key) == Get(Get(subs[i], workflowId, NoSubscribers), key, <<>>)

RECURSIVE SumLen(_, _)
SumLen(m, keys) ==
  IF keys = {} THEN 0
  ELSE LET k == CHOOSE x \in keys : TRUE IN Len(m[k]) + SumLen(m, keys \ {k})

\* registrations of one workflow over all its keys
WorkflowRegs(subs, i, workflowId) ==
  LET m == Get(subs[i], workflowId, NoSubscribers) IN SumLen(m, DOMAIN m)

RECURSIVE SumRegs(_, _, _)
SumRegs(subs, i, wfs) ==
  IF wfs = {} THEN 0
  ELSE LET w == CHOOSE x \in wfs : TRUE IN WorkflowRegs(subs, i, w) + SumRegs(subs, i, wfs \ {w})

TotalRegs(subs, i) == SumRegs(subs, i, DOMAIN subs[i])

(***************************************************************************)
(* subscribe                                                               *)
(***************************************************************************)
\* const handlerIndex = (handlers) => handlers.indexOf((s) => ...)
handlerIndex(handlers) == IndexOf(Handlers(handlers), FreshPredicate)

\* if (subscriberIndex !== -1) handlers.slice(subscriberIndex, 1); handlers.push(subscriber)
\* slice returns a copy that is dropped, so the array keeps every element
PushSubscriber(handlers, registration) ==
  LET subscriberIndex == handlerIndex(handlers)
      dropped == IF subscriberIndex # -1 THEN Slice(handlers, subscriberIndex, 1) ELSE <<>>
  IN Append(handlers, registration)

SubscribeMap(map, workflowId, transactionId, registration) ==
  LET subs == Get(map, workflowId, NoSubscribers)
      key == KeyOf(transactionId)
  IN MapSet(map, workflowId, MapSet(subs, key, PushSubscriber(Get(subs, key, <<>>), registration)))

\* redisSubscriber.subscribe(channel) only when the workflow has no entry in the
\* map: the channels subscribe asks the broker to activate
SubscribeActivates(map, workflowId) ==
  IF workflowId \notin DOMAIN map THEN {getChannelName(workflowId)} ELSE {}

SubscribeChannels(chans, map, workflowId) == chans \cup SubscribeActivates(map, workflowId)

NoLast ==
  [op |-> "init", key |-> <<>>, removed |-> 0, inst |-> Undefined, event |-> <<>>,
   origin |-> Undefined, invoked |-> <<>>, seen |-> <<>>,
   call |-> Undefined, redundant |-> FALSE, custom |-> <<>>, notified |-> <<>>,
   activated |-> {}, transaction |-> <<>>, fired |-> <<>>, outcome |-> Undefined,
   finished |-> FALSE, threw |-> FALSE, generated |-> FALSE, error |-> Undefined,
   args |-> <<>>, acknowledgement |-> <<>>, result |-> <<>>, decoded |-> <<>>]

Subscribe(i, workflowId, transactionId, subscriber, subscriberId) ==
  /\ handlerId' = [handlerId EXCEPT ![i][subscriber] = subscriberId]
  /\ channels' = [channels EXCEPT ![i] = SubscribeChannels(@, subscribers[i], workflowId)]
  /\ subscribers' = [subscribers EXCEPT ![i] =
       SubscribeMap(@, workflowId, transactionId,
                    Registration(subscriber, subscriberId, transactionId))]
  /\ last' = [NoLast EXCEPT !.op = "subscribe",
                            !.activated = SubscribeActivates(subscribers[i], workflowId)]
  /\ UNCHANGED <<inbox, facadeVars>>

\* the rank of the next subscribe call on instance i: above that of every
\* registration the instance holds (field .seq, kept where the order of the
\* subscribe calls is followed, 0 elsewhere)
NextSeq(i) ==
  LET held == {r.seq : r \in UNION {Range(Entries(subscribers, i, k[1], k[2])) :
                                      k \in WorkflowIds \X TransactionIds}}
  IN IF held = {} THEN 1 ELSE 1 + CHOOSE q \in held : \A o \in held : o <= q

\* subscribe, the registration remembering the rank of the call
SubscribeInOrder(i, workflowId, transactionId, subscriber, subscriberId) ==
  /\ handlerId' = [handlerId EXCEPT ![i][subscriber] = subscriberId]
  /\ channels' = [channels EXCEPT ![i] = SubscribeChannels(@, subscribers[i], workflowId)]
  /\ subscribers' = [subscribers EXCEPT ![i] =
       SubscribeMap(@, workflowId, transactionId,
                    [Registration(subscriber, subscriberId, transactionId)
                       EXCEPT !.seq = NextSeq(i)])]
  /\ last' = [NoLast EXCEPT !.op = "subscribe",
                            !.activated = SubscribeActivates(subscribers[i], workflowId)]
  /\ UNCHANGED <<inbox, facadeVars>>

(***************************************************************************)
(* unsubscribe                                                             *)
(***************************************************************************)
\* handlers.filter(h => h._id ? h._id !== subscriberOrId : h !== subscriberOrId)
Keeps(ids, h, subscriberOrId) ==
  IF Truthy(ids[h.handler]) THEN ids[h.handler] # subscriberOrId ELSE h.handler # subscriberOrId

filterSubscribers(handlers, ids, subscriberOrId) ==
  SelectSeq(handlers, LAMBDA h : Keeps(ids, h, subscriberOrId))

\* a variant that filters the handlers of every key of the workflow
UnsubscribeMapEveryKey(map, ids, workflowId, transactionId, subscriberOrId) ==
  LET subs == Get(map, workflowId, NoSubscribers)
  IN MapSet(map, workflowId,
            [k \in DOMAIN subs |-> filterSubscribers(subs[k], ids, subscriberOrId)])

UnsubscribeMap(map, ids, workflowId, transactionId, subscriberOrId) ==
  LET subs == Get(map, workflowId, NoSubscribers)
      key == KeyOf(transactionId)
  IN MapSet(map, workflowId,
            MapSet(subs, key, filterSubscribers(Get(subs, key, <<>>), ids, subscriberOrId)))

\* redisSubscriber.unsubscribe(channel) only when the workflow has no entry in the map
UnsubscribeChannels(chans, map, workflowId) ==
  IF workflowId \notin DOMAIN map THEN chans \ {getChannelName(workflowId)} ELSE chans

Unsubscribe(i, workflowId, transactionId, subscriberOrId) ==
  /\ channels' = [channels EXCEPT ![i] = UnsubscribeChannels(@, subscribers[i], workflowId)]
  /\ subscribers' = [subscribers EXCEPT ![i] =
       UnsubscribeMap(@, handlerId[i], workflowId, transactionId, subscriberOrId)]
  /\ LET removed == TotalRegs(subscribers, i) - TotalRegs(subscribers', i) IN
       last' = [NoLast EXCEPT !.op = "unsubscribe", !.removed = removed,
                              !.key = IF removed > 0
                                      THEN <<i, workflowId, KeyOf(transactionId)>> ELSE <<>>]
  /\ UNCHANGED <<handlerId, inbox, facadeVars>>

(***************************************************************************)
(* notify                                                                  *)
(***************************************************************************)
\* NotifyOptions: the fields notify reads to route the event (step, response,
\* result and errors are passed through to the handlers untouched)
NotifyOptions(eventType, workflowId, transactionId) ==
  [eventType |-> eventType, workflowId |-> workflowId, transactionId |-> transactionId]

\* if (transactionId) notifySubscribers(subscribers.get(transactionId) ?? [])
\* notifySubscribers(subscribers.get(AnySubscriber) ?? [])
\* the handlers called, in the order of the calls
\* a variant that skips the workflow-wide handlers when the event has a transactionId
notifyHandlersOneKey(subs, transactionId) ==
  IF Truthy(transactionId) THEN Get(subs, transactionId, <<>>) ELSE Get(subs, AnySubscriber, <<>>)

notifyHandlers(subs, transactionId) ==
  (IF Truthy(transactionId) THEN Get(subs, transactionId, <<>>) ELSE <<>>)
    \o Get(subs, AnySubscriber, <<>>)

\* a variant that drops every event received from the broker
notifyInvokedLocalOnly(i, map, options, publish, instanceId) ==
  IF ~publish
  THEN <<>>
  ELSE notifyHandlers(Get(map, options.workflowId, NoSubscribers), options.transactionId)

\* a variant that drops every event that carries the own instance id
notifyInvokedRemoteOnly(i, map, options, publish, instanceId) ==
  IF instanceId = i
  THEN <<>>
  ELSE notifyHandlers(Get(map, options.workflowId, NoSubscribers), options.transactionId)

\* if (!publish && instanceId === WorkflowOrchestrator.instanceId) return
notifyInvoked(i, map, options, publish, instanceId) ==
  IF ~publish /\ instanceId = i
  THEN <<>>
  ELSE notifyHandlers(Get(map, options.workflowId, NoSubscribers), options.transactionId)

\* JSON.stringify({ instanceId, data: options }) as the broker holds it for one
\* subscribed instance: .copies deliveries are still due (at-least-once), and
\* .seen remembers the handlers that instance has already called for the event
\* (read by the properties only)
Envelope(instanceId, options, copies, seen) ==
  [instanceId |-> instanceId, data |-> options, copies |-> copies, seen |-> seen]

\* redisPublisher.publish(channel, message): every instance whose redisSubscriber
\* is subscribed to the channel gets the message, the publisher included
Publish(inb, chans, i, options, copies, invoked) ==
  [j \in Instances |->
     IF copies > 0 /\ getChannelName(options.workflowId) \in chans[j]
     THEN Append(inb[j], Envelope(i, options, copies, IF j = i THEN invoked ELSE <<>>))
     ELSE inb[j]]

\* a variant of notifyPublish that publishes whatever the publish flag
notifyPublishAlways(inb, chans, i, options, publish, instanceId, copies, invoked) ==
  IF ~publish /\ instanceId = i
  THEN inb
  ELSE Publish(inb, chans, i, options, copies, invoked)

\* the broker after notify(options, publish, instanceId) on instance i: nothing
\* after the early return, and if (publish) { redisPublisher.publish(channel,
\* JSON.stringify({ instanceId: WorkflowOrchestrator.instanceId, data: options })) }
notifyPublish(inb, chans, i, options, publish, instanceId, copies, invoked) ==
  IF ~publish /\ instanceId = i
  THEN inb
  ELSE IF publish THEN Publish(inb, chans, i, options, copies, invoked) ELSE inb

\* notify(options) called by the facade on instance i (publish = true, own
\* instanceId); copies = 0 is a publish that fails or never completes
Notify(i, options, copies) ==
  LET invoked == notifyInvoked(i, subscribers[i], options, TRUE, i) IN
  /\ inbox' = notifyPublish(inbox, channels, i, options, TRUE, i, copies, invoked)
  /\ last' = [NoLast EXCEPT !.op = "notify", !.inst = i, !.event = options,
                            !.origin = i, !.invoked = invoked]
  /\ UNCHANGED <<registryVars, facadeVars>>

\* redisSubscriber.on("message", (_, message) => { const { instanceId, data } =
\*   JSON.parse(message); notify(data, false, instanceId) })
OnMessage(i) ==
  /\ inbox[i] # <<>>
  /\ LET message == Head(inbox[i])
         invoked == notifyInvoked(i, subscribers[i], message.data, FALSE, message.instanceId)
         taken == [inbox EXCEPT ![i] =
             IF message.copies > 1
             THEN <<[message EXCEPT !.copies = @ - 1, !.seen = @ \o invoked]>> \o Tail(@)
             ELSE Tail(@)]
     IN /\ inbox' = notifyPublish(taken, channels, i, message.data, FALSE,
                                  message.instanceId, MaxCopies, invoked)
        /\ last' = [NoLast EXCEPT !.op = "message", !.inst = i, !.event = message.data,
                                  !.origin = message.instanceId,
                                  !.invoked = invoked, !.seen = message.seen]
  /\ UNCHANGED <<registryVars, facadeVars>>

\* the broker has room for the envelope on every instance it would go to
InboxRoom(workflowId) ==
  \A j \in Instances :
    getChannelName(workflowId) \in channels[j] => Len(inbox[j]) < MaxInbox

(***************************************************************************)
(* The transaction engine (@medusajs/orchestration, the flow returned by   *)
(* MedusaWorkflow.getWorkflow): a transaction is "none" (not started),     *)
(* "waiting" (its step awaits a report), "done" or "failed".  One engine   *)
(* call is one atomic transition; it yields the new state, the callback    *)
(* slots it fired, in order, and whether the call returned or was rejected.*)
(***************************************************************************)
Slots ==
  {"onTimeout", "onBegin", "onResume", "onCompensateBegin", "onFinish", "onStepBegin",
   "onStepSuccess", "onStepFailure", "onCompensateStepSuccess", "onCompensateStepFailure"}

\* transaction.hasFinished()
hasFinished(state) == state \in {"done", "failed"}

EngineResult(state, fired, outcome) == [state |-> state, fired |-> fired, outcome |-> outcome]

\* flow.run of a transaction that does not exist yet
flowRun(workflowId, state) ==
  IF workflowId \in AsyncWorkflows
  THEN {EngineResult("waiting", <<"onBegin", "onStepBegin">>, "returned")}
  ELSE {EngineResult("done", <<"onBegin", "onStepBegin", "onStepSuccess", "onFinish">>,
                     "returned")}

\* a report for a step-action the engine has resolved already: the engine decides;
\* it changes nothing and fires nothing, and either hands back the finished
\* transaction or rejects the call
redundantReport(state) ==
  {EngineResult(state, <<>>, "returned"), EngineResult(state, <<>>, "rejected")}

\* flow.registerStepSuccess
registerStepSuccess(state) ==
  CASE state = "waiting" -> {EngineResult("done", <<"onStepSuccess", "onFinish">>, "returned")}
    [] hasFinished(state) -> redundantReport(state)
    [] OTHER -> {EngineResult(state, <<>>, "rejected")}

\* flow.registerStepFailure: the step fails for good and the engine compensates
registerStepFailure(state) ==
  CASE state = "waiting" ->
         {EngineResult("failed", <<"onStepFailure", "onCompensateBegin",
                                   "onCompensateStepSuccess", "onFinish">>, "returned")}
    [] hasFinished(state) -> redundantReport(state)
    [] OTHER -> {EngineResult(state, <<>>, "rejected")}

\* flow.getRunningTransaction: the transaction when it is running, an error otherwise
flowGetRunningTransaction(state) ==
  IF state = "waiting" THEN Undefined ELSE TransactionNotFound

\* a callback of the fired slots throws (the cut-th, 0 for none): the engine
\* either isolates the error and goes on, or stops firing and rejects the call;
\* the transition it made stands
engineOnThrow(ret, cut, isolates) ==
  IF cut = 0 \/ isolates
  THEN ret
  ELSE EngineResult(ret.state, SubSeq(ret.fired, 1, cut), "rejected")

(***************************************************************************)
(* The facade: run, setStepSuccess, setStepFailure.                        *)
(***************************************************************************)
\* buildWorkflowEvents: for every slot, the custom handler the slot's callback
\* invokes and the event it then notifies (none for onFinish)
buildWorkflowEvents(workflowId, transactionId) ==
  [slot \in Slots |->
     [custom |-> CASE slot = "onCompensateStepSuccess" -> "onStepSuccess"
                   [] slot = "onCompensateStepFailure" -> "onStepFailure"
                   [] OTHER -> slot,
      notify |-> IF slot = "onFinish"
                 THEN <<>>
                 ELSE <<NotifyOptions(slot, workflowId, transactionId)>>]]

\* the custom handlers the callbacks of the fired slots invoke, in order
CustomInvoked(events, fired) == [n \in 1..Len(fired) |-> events[fired[n]].custom]

\* the events the callbacks of the fired slots notify, in order; a callback
\* whose custom handler throws does not get to its notify
RECURSIVE Notified(_, _, _)
Notified(events, fired, throwing) ==
  IF fired = <<>>
  THEN <<>>
  ELSE (IF events[Head(fired)].custom = throwing THEN <<>> ELSE events[Head(fired)].notify)
         \o Notified(events, Tail(fired), throwing)

\* the first fired slot whose callback throws, 0 when none does
FirstThrow(events, fired, throwing) ==
  IF \E n \in 1..Len(fired) : events[fired[n]].custom = throwing
  THEN CHOOSE n \in 1..Len(fired) :
         /\ events[fired[n]].custom = throwing
         /\ \A m \in 1..(n - 1) : events[fired[m]].custom # throwing
  ELSE 0

\* A string is the sequence of its characters; an identifier of the model
\* ("wf1", "invoke") stands for one character that is not the delimiter.
Delimiter == ":"
Text(name) == <<name>>
Name(text) == text[1]

\* a field that array destructuring finds no element for (undefined)
NoField == <<Undefined>>

\* the argument of type string | IdempotencyKeyParts: the string form carries its
\* characters in field .string, the parts form is the record of the four fields
String(text) == [string |-> text]
isString(idempotencyKey) == "string" \in DOMAIN idempotencyKey

\* Array.prototype.join writes undefined as the empty string
Str(field) == IF field = NoField THEN <<>> ELSE field

\* [a, b, c, d].join(sep)
RECURSIVE Join(_, _)
Join(fields, sep) ==
  IF fields = <<>> THEN <<>>
  ELSE IF Len(fields) = 1 THEN Str(fields[1])
  ELSE Str(Head(fields)) \o <<sep>> \o Join(Tail(fields), sep)

\* a variant of split that leaves the empty fields out
RECURSIVE SplitSkippingEmpty(_, _)
SplitSkippingEmpty(text, sep) ==
  LET at == IndexOf(text, sep)
      rest == IF at = -1 THEN <<>> ELSE SplitSkippingEmpty(SubSeq(text, at + 2, Len(text)), sep)
      field == IF at = -1 THEN text ELSE SubSeq(text, 1, at)
  IN IF field = <<>> THEN rest ELSE <<field>> \o rest

\* text.split(sep): the fields between the separators, the empty ones included
RECURSIVE Split(_, _)
Split(text, sep) ==
  LET at == IndexOf(text, sep) IN
  IF at = -1 THEN <<text>>
  ELSE <<SubSeq(text, 1, at)>> \o Split(SubSeq(text, at + 2, Len(text)), sep)

\* const [workflowId, transactionId, stepId, action] = array
Field(fields, n) == IF n <= Len(fields) THEN fields[n] ELSE NoField

\* private static buildIdempotencyKeyAndParts(idempotencyKey): [string, parts]
buildIdempotencyKeyAndParts(idempotencyKey) ==
  IF ~isString(idempotencyKey)
  THEN << Join(<<idempotencyKey.workflowId, idempotencyKey.transactionId,
                 idempotencyKey.stepId, idempotencyKey.action>>, Delimiter),
          [workflowId |-> idempotencyKey.workflowId,
           transactionId |-> idempotencyKey.transactionId,
           stepId |-> idempotencyKey.stepId,
           action |-> idempotencyKey.action] >>
  ELSE LET fields == Split(idempotencyKey.string, Delimiter) IN
       << idempotencyKey.string,
          [workflowId |-> Field(fields, 1), transactionId |-> Field(fields, 2),
           stepId |-> Field(fields, 3), action |-> Field(fields, 4)] >>

\* the parts form of the key of the step of a transaction
IdempotencyKeyParts(workflowId, transactionId) ==
  [workflowId |-> Text(workflowId), transactionId |-> Text(transactionId),
   stepId |-> Text(StepId), action |-> Text("invoke")]

\* the string form of the same key
IdempotencyKeyString(workflowId, transactionId) ==
  String(Join(<<Text(workflowId), Text(transactionId), Text(StepId), Text("invoke")>>,
              Delimiter))

\* notify(options) for each of the events, in order: the inboxes afterwards
RECURSIVE PublishEach(_, _, _, _, _, _)
PublishEach(inb, chans, map, i, events, copies) ==
  IF events = <<>>
  THEN inb
  ELSE PublishEach(Publish(inb, chans, i, Head(events), copies,
                           notifyInvoked(i, map, Head(events), TRUE, i)),
                   chans, map, i, Tail(events), copies)

\* ... and the handlers of instance i they invoke, in order
RECURSIVE InvokedEach(_, _, _)
InvokedEach(i, map, events) ==
  IF events = <<>>
  THEN <<>>
  ELSE notifyInvoked(i, map, Head(events), TRUE, i) \o InvokedEach(i, map, Tail(events))

NoCall ==
  [op |-> "none", workflowId |-> Undefined, transactionId |-> Undefined,
   outcome |-> "none", finished |-> FALSE, redundant |-> FALSE, threw |-> FALSE,
   generated |-> FALSE]

\* the part of a facade call up to the end of its engine call: the engine makes
\* its transition and fires the slots of ret, whose callbacks invoke the custom
\* handlers and notify; the call then awaits the engine's answer
EngineCall(i, op, workflowId, transactionId, generated, ret, throwing, isolates, copies) ==
  LET k == <<workflowId, transactionId>>
      events == buildWorkflowEvents(workflowId, transactionId)
      cut == FirstThrow(events, ret.fired, throwing)
      answer == engineOnThrow(ret, cut, isolates)
      notified == Notified(events, answer.fired, throwing)
  IN /\ transactions' = [transactions EXCEPT ![k] = answer.state]
     /\ inbox' = PublishEach(inbox, channels, subscribers[i], i, notified, copies)
     /\ pending' = [pending EXCEPT ![i] =
          [op |-> op, workflowId |-> workflowId, transactionId |-> transactionId,
           outcome |-> answer.outcome, finished |-> hasFinished(answer.state),
           redundant |-> hasFinished(transactions[k]) /\ finishes[k] > 0,
           threw |-> cut > 0, generated |-> generated]]
     /\ last' = [NoLast EXCEPT !.op = "engine", !.inst = i, !.call = op,
                               !.transaction = k,
                               !.fired = answer.fired,
                               !.custom = CustomInvoked(events, answer.fired),
                               !.notified = notified,
                               !.invoked = InvokedEach(i, subscribers[i], notified)]
     /\ UNCHANGED <<registryVars, finishes>>

\* a facade call that throws before it calls the engine
Throw(i, op, args, error) ==
  /\ last' = [NoLast EXCEPT !.op = "error", !.inst = i, !.call = op, !.args = args,
                            !.error = error]
  /\ UNCHANGED <<registryVars, inbox, facadeVars>>

\* run(workflowId, { transactionId, events }) up to the end of flow.run;
\* context.transactionId ??= transactionId ?? ulid()
Run(i, workflowId, transactionId, ulid, throwing, isolates, copies) ==
  /\ pending[i] = NoCall
  /\ IF ~Truthy(workflowId)
     THEN Throw(i, "run", <<workflowId, transactionId>>, MissingWorkflowId)
     ELSE LET contextTransactionId == IF Truthy(transactionId) THEN transactionId ELSE ulid
          IN \E ret \in flowRun(workflowId, transactions[<<workflowId, contextTransactionId>>]) :
               EngineCall(i, "run", workflowId, contextTransactionId, ~Truthy(transactionId),
                          ret, throwing, isolates, copies)

\* a variant that checks the transactionId first
getRunningTransactionErrorIdFirst(workflowId, transactionId) ==
  IF ~Truthy(transactionId) THEN MissingTransactionId
  ELSE IF ~Truthy(workflowId) THEN MissingWorkflowId
  ELSE Undefined

\* if (!workflowId) throw ...; if (!transactionId) throw ...
getRunningTransactionError(workflowId, transactionId) ==
  IF ~Truthy(workflowId) THEN MissingWorkflowId
  ELSE IF ~Truthy(transactionId) THEN MissingTransactionId
  ELSE Undefined

\* getRunningTransaction(workflowId, transactionId)
GetRunningTransaction(i, workflowId, transactionId) ==
  LET error == getRunningTransactionError(workflowId, transactionId) IN
  /\ pending[i] = NoCall
  /\ IF Truthy(error)
     THEN Throw(i, "getRunningTransaction", <<workflowId, transactionId>>, error)
     ELSE /\ last' = [NoLast EXCEPT
                        !.op = "engine", !.inst = i, !.call = "getRunningTransaction",
                        !.transaction = <<workflowId, transactionId>>,
                        !.error = flowGetRunningTransaction(
                                    transactions[<<workflowId, transactionId>>])]
          /\ UNCHANGED <<registryVars, inbox, facadeVars>>

\* setStepSuccess({ idempotencyKey, options: { events } }) up to the end of
\* flow.registerStepSuccess
SetStepSuccess(i, idempotencyKey, throwing, isolates, copies) ==
  LET parts == buildIdempotencyKeyAndParts(idempotencyKey)[2]
      workflowId == Name(parts.workflowId)
      transactionId == Name(parts.transactionId)
  IN
  /\ pending[i] = NoCall
  /\ \E ret \in registerStepSuccess(transactions[<<workflowId, transactionId>>]) :
       EngineCall(i, "setStepSuccess", workflowId, transactionId, FALSE,
                  ret, throwing, isolates, copies)

\* setStepFailure({ idempotencyKey, options: { events } }) up to the end of
\* flow.registerStepFailure
SetStepFailure(i, idempotencyKey, throwing, isolates, copies) ==
  LET parts == buildIdempotencyKeyAndParts(idempotencyKey)[2]
      workflowId == Name(parts.workflowId)
      transactionId == Name(parts.transactionId)
  IN
  /\ pending[i] = NoCall
  /\ \E ret \in registerStepFailure(transactions[<<workflowId, transactionId>>]) :
       EngineCall(i, "setStepFailure", workflowId, transactionId, FALSE,
                  ret, throwing, isolates, copies)

\* a variant that notifies onFinish whatever the state of the transaction
finishEventsUnchecked(call) ==
  IF call.outcome = "returned"
  THEN <<NotifyOptions("onFinish", call.workflowId, call.transactionId)>>
  ELSE <<>>

\* if (ret.transaction.hasFinished()) notify({ eventType: "onFinish", ... }); a
\* rejected engine call throws out of the facade call before this
finishEvents(call) ==
  IF call.outcome = "returned" /\ call.finished
  THEN <<NotifyOptions("onFinish", call.workflowId, call.transactionId)>>
  ELSE <<>>

\* const acknowledgement = { transactionId: context.transactionId, workflowId }
acknowledgement(call) ==
  IF call.op = "run" /\ call.outcome = "returned"
  THEN [transactionId |-> call.transactionId, workflowId |-> call.workflowId]
  ELSE <<>>

\* the rest of the facade call of instance i, after the await of its engine call
Return(i, copies) ==
  /\ pending[i] # NoCall
  /\ LET call == pending[i]
         k == <<call.workflowId, call.transactionId>>
         notified == finishEvents(call)
     IN /\ inbox' = PublishEach(inbox, channels, subscribers[i], i, notified, copies)
        /\ finishes' = [finishes EXCEPT ![k] =
             IF @ + Len(notified) > MaxFinishes THEN MaxFinishes ELSE @ + Len(notified)]
        /\ last' = [NoLast EXCEPT !.op = "return", !.inst = i, !.call = call.op,
                                  !.transaction = k,
                                  !.outcome = call.outcome,
                                  !.finished = call.finished,
                                  !.redundant = call.redundant,
                                  !.threw = call.threw,
                                  !.generated = call.generated,
                                  !.acknowledgement = acknowledgement(call),
                                  !.notified = notified,
                                  !.invoked = InvokedEach(i, subscribers[i], notified)]
  /\ pending' = [pending EXCEPT ![i] = NoCall]
  /\ UNCHANGED <<registryVars, transactions>>

\* the broker has room for n more envelopes on every instance
FacadeInboxRoom(n) == \A j \in Instances : Len(inbox[j]) + n <= MaxFacadeInbox

(***************************************************************************)
(* Specifications.                                                         *)
(***************************************************************************)
Init ==
  /\ subscribers = [i \in Instances |-> EmptyMap]
  /\ handlerId = [i \in Instances |-> [c \in Callbacks |-> Undefined]]
  /\ channels = [i \in Instances |-> {}]
  /\ inbox = [i \in Instances |-> <<>>]
  /\ transactions = [k \in WorkflowIds \X FacadeTransactionIds |-> "none"]
  /\ pending = [i \in Instances |-> NoCall]
  /\ finishes = [k \in WorkflowIds \X FacadeTransactionIds |-> 0]
  /\ last = NoLast

\* Spec: instance A subscribes and unsubscribes a callback (no subscriberId), A
\* and B emit events of every workflow and transaction, the broker delivers to A
Next ==
  \/ \E workflowId \in WorkflowIds, transactionId \in WatchedTransactionIds \cup {Undefined},
        subscriber \in FanoutCallbacks :
       /\ TotalRegs(subscribers, "A") < MaxRegs
       /\ Subscribe("A", workflowId, transactionId, subscriber, Undefined)
  \/ \E workflowId \in WorkflowIds, transactionId \in WatchedTransactionIds \cup {Undefined},
        subscriberOrId \in FanoutCallbacks :
       Unsubscribe("A", workflowId, transactionId, subscriberOrId)
  \/ \E i \in Instances, workflowId \in WorkflowIds,
        transactionId \in TransactionIds \cup {Undefined}, copies \in 0..MaxCopies :
       /\ InboxRoom(workflowId)
       /\ Notify(i, NotifyOptions("onStepSuccess", workflowId, transactionId), copies)
  \/ \E i \in Instances : OnMessage(i)

Spec == Init /\ [][Next]_vars

\* SpecRegistry: the registry of instance A alone, with and without
\* subscriberId, unsubscribing by id and by callback
NextRegistry ==
  \/ \E workflowId \in WorkflowIds, transactionId \in TransactionIds \cup {Undefined},
        subscriber \in Callbacks, subscriberId \in SubscriberIds \cup {Undefined} :
       /\ TotalRegs(subscribers, "A") < MaxRegs
       /\ Subscribe("A", workflowId, transactionId, subscriber, subscriberId)
  \/ \E workflowId \in WorkflowIds, transactionId \in TransactionIds \cup {Undefined},
        subscriberOrId \in Callbacks \cup SubscriberIds :
       Unsubscribe("A", workflowId, transactionId, subscriberOrId)

SpecRegistry == Init /\ [][NextRegistry]_vars

\* SpecFacade: both instances subscribe a workflow-wide callback; instance A calls
\* run (without transactionId: ulid() gives one no transaction has), setStepSuccess
\* and setStepFailure for one transaction of each workflow, with and without a
\* throwing custom handler, and instance B reports step successes alongside.  A
\* call starts when the broker has delivered every envelope, and every publish
\* succeeds
NextFacade ==
  \/ \E i \in Instances, workflowId \in WorkflowIds :
       /\ TotalRegs(subscribers, i) < MaxFacadeRegs
       /\ Subscribe(i, workflowId, Undefined, FacadeCallback[i], Undefined)
  \/ \E workflowId \in WorkflowIds, ulid \in FacadeTransactionIds, throwing \in FacadeThrowing :
       \E isolates \in IF Truthy(throwing) THEN BOOLEAN ELSE {TRUE} :
         /\ transactions[<<workflowId, ulid>>] = "none"
         /\ FacadeInboxRoom(MaxFacadeInbox)
         /\ Run("A", workflowId, Undefined, ulid, throwing, isolates, MaxCopies)
  \/ \E i \in Instances, workflowId \in WorkflowIds, transactionId \in FacadeTransactionIds :
       \E throwing \in IF i = "A" THEN FacadeThrowing ELSE {Undefined} :
       \E isolates \in IF Truthy(throwing) THEN BOOLEAN ELSE {TRUE} :
         /\ FacadeInboxRoom(MaxFacadeInbox)
         /\ SetStepSuccess(i, IF i = "A" THEN IdempotencyKeyParts(workflowId, transactionId)
                                        ELSE IdempotencyKeyString(workflowId, transactionId),
                           throwing, isolates, MaxCopies)
  \/ \E workflowId \in WorkflowIds, transactionId \in FacadeTransactionIds,
        throwing \in FacadeThrowing :
       \E isolates \in IF Truthy(throwing) THEN BOOLEAN ELSE {TRUE} :
         /\ FacadeInboxRoom(MaxFacadeInbox)
         /\ SetStepFailure("A", IdempotencyKeyParts(workflowId, transactionId),
                           throwing, isolates, MaxCopies)
  \/ \E i \in Instances :
       /\ FacadeInboxRoom(1)
       /\ Return(i, MaxCopies)
  \/ \E i \in Instances : OnMessage(i)

SpecFacade == Init /\ [][NextFacade]_vars

\* SpecErrors: instance A subscribes and calls run and getRunningTransaction with
\* and without workflowId and transactionId
NextErrors ==
  \/ \E workflowId \in WorkflowIds :
       /\ TotalRegs(subscribers, "A") < MaxFacadeRegs
       /\ Subscribe("A", workflowId, Undefined, FacadeCallback["A"], Undefined)
  \/ \E workflowId \in WorkflowIds \cup {Undefined},
        transactionId \in FacadeTransactionIds \cup {Undefined},
        ulid \in FacadeTransactionIds :
       /\ Truthy(workflowId) =>
            transactions[<<workflowId,
                           IF Truthy(transactionId) THEN transactionId ELSE ulid>>] = "none"
       /\ FacadeInboxRoom(MaxFacadeInbox)
       /\ Run("A", workflowId, transactionId, ulid, Undefined, TRUE, MaxCopies)
  \/ \E workflowId \in WorkflowIds \cup {Undefined},
        transactionId \in FacadeTransactionIds \cup {Undefined} :
       /\ FacadeInboxRoom(MaxFacadeInbox)
       /\ GetRunningTransaction("A", workflowId, transactionId)
  \/ /\ FacadeInboxRoom(1)
     /\ Return("A", MaxCopies)
  \/ OnMessage("A")

SpecErrors == Init /\ [][NextErrors]_vars

\* the characters the keys of SpecCodec are made of
KeyChars == {"a", Delimiter}

\* the strings of at most n characters
Strings(n) == UNION {[1..len -> KeyChars] : len \in 0..n}

\* the parts whose fields have at most MaxFieldLen characters
PartsInputs ==
  [workflowId : Strings(MaxFieldLen), transactionId : Strings(MaxFieldLen),
   stepId : Strings(MaxFieldLen), action : Strings(MaxFieldLen)]

\* buildIdempotencyKeyAndParts(idempotencyKey) of the input
BuildIdempotencyKeyAndParts ==
  /\ last.op = "input"
  /\ last' = [last EXCEPT !.op = "built",
                          !.result = buildIdempotencyKeyAndParts(last.args[1])]
  /\ UNCHANGED <<registryVars, inbox, facadeVars>>

\* buildIdempotencyKeyAndParts(key) of the key string the first call returned
BuildFromKey ==
  /\ last.op = "built"
  /\ last' = [last EXCEPT !.op = "rebuilt",
                          !.decoded = buildIdempotencyKeyAndParts(String(last.result[1]))]
  /\ UNCHANGED <<registryVars, inbox, facadeVars>>

\* SpecCodec: the key codec applied to every parts record and every key string
\* of the bounded sets, and again to the key string it returned
InitCodec ==
  /\ subscribers = [i \in Instances |-> EmptyMap]
  /\ handlerId = [i \in Instances |-> [c \in Callbacks |-> Undefined]]
  /\ channels = [i \in Instances |-> {}]
  /\ inbox = [i \in Instances |-> <<>>]
  /\ transactions = [k \in WorkflowIds \X FacadeTransactionIds |-> "none"]
  /\ pending = [i \in Instances |-> NoCall]
  /\ finishes = [k \in WorkflowIds \X FacadeTransactionIds |-> 0]
  /\ \/ \E parts \in PartsInputs : last = [NoLast EXCEPT !.op = "input", !.args = <<parts>>]
     \/ \E text \in Strings(MaxKeyLen) :
          last = [NoLast EXCEPT !.op = "input", !.args = <<String(text)>>]

NextCodec == BuildIdempotencyKeyAndParts \/ BuildFromKey

SpecCodec == InitCodec /\ [][NextCodec]_vars

\* the fan-out on instance A, the registrations remembering the order of the
\* subscribe calls; B publishes too
NextOrder ==
  \/ \E workflowId \in WorkflowIds, transactionId \in FacadeTransactionIds \cup {Undefined} :
       /\ TotalRegs(subscribers, "A") < MaxOrderRegs
       /\ NextSeq("A") <= MaxSeq
       /\ SubscribeInOrder("A", workflowId, transactionId, "f", Undefined)
  \/ \E workflowId \in WorkflowIds, transactionId \in FacadeTransactionIds \cup {Undefined} :
       Unsubscribe("A", workflowId, transactionId, "f")
  \/ \E i \in Instances, workflowId \in WorkflowIds,
        transactionId \in FacadeTransactionIds \cup {Undefined}, copies \in 0..MaxCopies :
       /\ InboxRoom(workflowId)
       /\ Notify(i, NotifyOptions("onStepSuccess", workflowId, transactionId), copies)
  \/ \E i \in Instances : OnMessage(i)

SpecOrder == Init /\ [][NextOrder]_vars

(***************************************************************************)
(* Properties.                                                             *)
(***************************************************************************)
\* how many elements of arr satisfy Test
Count(arr, Test(_)) == Cardinality({n \in 1..Len(arr) : Test(arr[n])})

\* the keys of the registry
RegistrySlots == Instances \X WorkflowIds \X TransactionIds

\* every registration instance i holds, as <<workflowId, key, index>>
Places(i) ==
  {p \in WorkflowIds \X TransactionIds \X (1..MaxRegs + 1) :
     p[3] <= Len(Entries(subscribers, i, p[1], p[2]))}

PlaceEntry(i, p) == Entries(subscribers, i, p[1], p[2])[p[3]]

\* C1: under every key, at most one registration was subscribed with a given
\* subscriberId (a second subscribe with the id replaces the first)
C1_OneRegistrationPerId ==
  \A s \in RegistrySlots, h \in SubscriberIds :
    Count(Entries(subscribers, s[1], s[2], s[3]), LAMBDA r : r.sid = h) <= 1

C8_UnsubscribeById ==
  [][\A workflowId \in WorkflowIds, transactionId \in TransactionIds \cup {Undefined},
        h \in SubscriberIds :
       Unsubscribe("A", workflowId, transactionId, h) =>
         Entries(subscribers', "A", workflowId, KeyOf(transactionId)) =
           SelectSeq(Entries(subscribers, "A", workflowId, KeyOf(transactionId)),
                     LAMBDA r : r.sid # h)
    ]_vars

\* C9: unsubscribe with the callback itself leaves no registration of that
\* callback under the key
C9_UnsubscribeByCallback ==
  [][\A workflowId \in WorkflowIds, transactionId \in TransactionIds \cup {Undefined},
        subscriber \in Callbacks :
       Unsubscribe("A", workflowId, transactionId, subscriber) =>
         Count(Entries(subscribers', "A", workflowId, KeyOf(transactionId)),
               LAMBDA r : r.handler = subscriber) = 0
    ]_vars

\* C10: a workflow with no registration left has no active channel
C10_NoRegistrationNoChannel ==
  \A i \in Instances, workflowId \in WorkflowIds :
    WorkflowRegs(subscribers, i, workflowId) = 0 =>
      getChannelName(workflowId) \notin channels[i]

\* the handlers (function objects) in a list of stored handlers, as a set
HandlerSet(arr) == {arr[n].handler : n \in 1..Len(arr)}

\* callback c has a registration on instance i, and all of c's registrations there
\* were subscribed under workflow workflowId with transactionId t
RegisteredOnlyUnder(i, c, workflowId, t) ==
  /\ \E p \in Places(i) : PlaceEntry(i, p).handler = c
  /\ \A p \in Places(i) :
       PlaceEntry(i, p).handler = c => p[1] = workflowId /\ PlaceEntry(i, p).tid = t

\* callback c is registered exactly once on instance i, and that for the events of
\* (workflowId, transactionId): workflow-wide or with that transactionId
RegisteredOnceFor(i, c, workflowId, transactionId) ==
  /\ Cardinality({p \in Places(i) : PlaceEntry(i, p).handler = c}) = 1
  /\ \A p \in Places(i) :
       PlaceEntry(i, p).handler = c =>
         /\ p[1] = workflowId
         /\ PlaceEntry(i, p).tid \in {Undefined, transactionId}

\* no key of instance i holds the same callback twice
OncePerKey(i) ==
  \A workflowId \in WorkflowIds, k \in TransactionIds, c \in Callbacks :
    Count(Entries(subscribers, i, workflowId, k), LAMBDA r : r.handler = c) <= 1

\* the last step handed an event to the handlers of last.inst: a local notify,
\* or an envelope of another instance (notify does not touch the registry, so
\* subscribers is the registry the event was delivered from)
Delivered == last.op = "notify" \/ (last.op = "message" /\ last.origin # last.inst)

\* C3: a local notify invokes a subscriber registered once exactly once, and the
\* instance's own envelope coming back from the broker invokes nobody
C3_OriginDeliversOnce ==
  /\ last.op = "notify" =>
       \A c \in Callbacks :
         RegisteredOnceFor(last.inst, c, last.event.workflowId, last.event.transactionId)
           => Count(last.invoked, LAMBDA r : r.handler = c) = 1
  /\ (last.op = "message" /\ last.origin = last.inst) => last.invoked = <<>>

\* C4: on an instance no callback is invoked twice for one event, over the local
\* delivery and every delivery by the broker.  Stated for the events whose
\* transactionId is not the string "any" and the registries that hold a callback
\* at most once under each key and were never given the transactionId "any", so
\* that neither the key collision of C5 nor the duplicates of C1 is what breaks it
C4_AtMostOncePerEvent ==
  (/\ last.op \in {"notify", "message"}
   /\ last.event.transactionId # AnySubscriber
   /\ OncePerKey(last.inst)
   /\ \A p \in Places(last.inst) : PlaceEntry(last.inst, p).tid # AnySubscriber)
    => \A c \in Callbacks : Count(last.seen \o last.invoked, LAMBDA r : r.handler = c) <= 1

\* C5: a callback registered only with transactionId t1 of a workflow is not
\* invoked for an event of that workflow with another transactionId
C5_SpecificTransactionOnly ==
  Delivered =>
    \A c \in Callbacks, t1 \in TransactionIds :
      (/\ RegisteredOnlyUnder(last.inst, c, last.event.workflowId, t1)
       /\ last.event.transactionId # t1)
        => c \notin HandlerSet(last.invoked)

\* C6: an event delivered on an instance invokes every registration made without
\* transactionId under the event's workflow, and no callback that has no
\* registration under that workflow
C6_WildcardFanout ==
  Delivered =>
    /\ \A p \in Places(last.inst) :
         (p[1] = last.event.workflowId /\ PlaceEntry(last.inst, p).tid = Undefined)
           => \E n \in 1..Len(last.invoked) : last.invoked[n] = PlaceEntry(last.inst, p)
    /\ \A c \in Callbacks :
         (\A p \in Places(last.inst) :
            PlaceEntry(last.inst, p).handler = c => p[1] # last.event.workflowId)
           => c \notin HandlerSet(last.invoked)

\* an event of a transaction, published by another instance, reached a
\* workflow-wide registration
C6_Witness ==
  /\ last.op = "message"
  /\ last.origin # last.inst
  /\ Truthy(last.event.transactionId)
  /\ \E n \in 1..Len(last.invoked) : last.invoked[n].tid = Undefined

\* C2: a setStepSuccess or setStepFailure for a transaction that had finished,
\* and whose finish event had been notified, before the call notifies no onFinish
\* event: none is published and no subscriber is invoked with one
C2_RedundantReportNoFinish ==
  (/\ last.op = "return"
   /\ last.call \in {"setStepSuccess", "setStepFailure"}
   /\ last.redundant)
    => \A n \in 1..Len(last.notified) : last.notified[n].eventType # "onFinish"

\* C11: the subscribe that creates the first registration of a workflow on an
\* instance asks for the activation of the workflow's channel, and a subscribe
\* for a workflow that has a registration already asks for none
C11_ActivatesOnFirstRegistration ==
  [][last'.op = "subscribe" =>
       \A workflowId \in WorkflowIds :
         WorkflowRegs(subscribers', "A", workflowId) > WorkflowRegs(subscribers, "A", workflowId)
           => (getChannelName(workflowId) \in last'.activated
                 <=> WorkflowRegs(subscribers, "A", workflowId) = 0)
    ]_vars

\* the registrations instance i holds for every transaction of the workflow
WildcardPlaces(i, workflowId) ==
  {p \in Places(i) : p[1] = workflowId /\ PlaceEntry(i, p).tid = Undefined}

\* the event types of a sequence of events
EventTypes(events) == [n \in 1..Len(events) |-> events[n].eventType]

\* C12: a run without transactionId notifies no onFinish during the engine call;
\* when the transaction is terminal after the engine call, it notifies exactly one
\* onFinish event, with the transactionId of the acknowledgement, and a callback
\* the instance holds one workflow-wide registration of is invoked once with it;
\* when the transaction is not terminal, it notifies nothing (calls without a
\* throwing custom handler)
C12_RunFinishEvent ==
  /\ (last.op = "engine" /\ last.call = "run") => "onFinish" \notin Range(EventTypes(last.notified))
  /\ (last.op = "return" /\ last.call = "run" /\ last.generated /\ ~last.threw) =>
       /\ last.acknowledgement # <<>>
       /\ IF last.finished
          THEN /\ last.notified =
                    <<NotifyOptions("onFinish", last.acknowledgement.workflowId,
                                    last.acknowledgement.transactionId)>>
               /\ \A c \in Callbacks :
                    Cardinality({p \in WildcardPlaces(last.inst, last.acknowledgement.workflowId) :
                                   PlaceEntry(last.inst, p).handler = c}) = 1
                      => Count(last.invoked, LAMBDA r : r.handler = c) = 1
          ELSE last.notified = <<>> /\ last.invoked = <<>>

\* a run without transactionId finished within the call and the subscriber of the
\* workflow got the onFinish event
C12_Witness ==
  /\ last.op = "return" /\ last.call = "run" /\ last.generated /\ ~last.threw
  /\ last.finished
  /\ last.invoked # <<>>

\* C13: the setStepSuccess of an instance invokes the workflow-wide subscribers of
\* that instance, and no other, during the call (the call has not returned), and
\* hands the event in an envelope with its instance id to every other subscribed
\* instance; an instance that receives an envelope of another instance invokes
\* its workflow-wide subscribers of the event's workflow, and no other
C13_LocalThenRemote ==
  /\ (last.op = "engine" /\ last.call = "setStepSuccess" /\ last.notified # <<>>) =>
       /\ pending[last.inst] # NoCall
       /\ \A p \in WildcardPlaces(last.inst, last.transaction[1]) :
            \E n \in 1..Len(last.invoked) : last.invoked[n] = PlaceEntry(last.inst, p)
       /\ HandlerSet(last.invoked) \subseteq {FacadeCallback[last.inst]}
       /\ \A j \in Instances \ {last.inst} :
            getChannelName(last.transaction[1]) \in channels[j] =>
              \E n \in 1..Len(inbox[j]) :
                /\ inbox[j][n].instanceId = last.inst
                /\ inbox[j][n].data = last.notified[1]
  /\ (last.op = "message" /\ last.origin # last.inst) =>
       /\ \A p \in WildcardPlaces(last.inst, last.event.workflowId) :
            \E n \in 1..Len(last.invoked) : last.invoked[n] = PlaceEntry(last.inst, p)
       /\ HandlerSet(last.invoked) \subseteq {FacadeCallback[last.inst]}

\* B, subscribed to the workflow as A is, received the onStepSuccess event of A
\* and invoked its subscriber
C13_Witness ==
  /\ last.op = "message" /\ last.inst = "B" /\ last.origin = "A"
  /\ last.event.eventType = "onStepSuccess"
  /\ last.invoked # <<>>
  /\ WildcardPlaces("A", last.event.workflowId) # {}

\* C14: a call in which a custom handler threw, and whose transaction is
\* terminal after the engine call, still notifies onFinish
C14_ThrowingHandlerStillFinishes ==
  (last.op = "return" /\ last.threw /\ last.finished)
    => "onFinish" \in Range(EventTypes(last.notified))

\* C16: run without workflowId throws the missing-workflow-id error;
\* getRunningTransaction throws it without workflowId, and the
\* missing-transaction-id error with a workflowId and without transactionId; a
\* call that throws so changes nothing and notifies nothing, and the engine is
\* called with the ids present only
C16_MissingIds ==
  [][/\ last'.op = "error" =>
          /\ UNCHANGED <<registryVars, inbox, facadeVars>>
          /\ last'.notified = <<>> /\ last'.invoked = <<>>
          /\ last'.call = "run" =>
               ~Truthy(last'.args[1]) /\ last'.error = MissingWorkflowId
          /\ last'.call = "getRunningTransaction" =>
               IF ~Truthy(last'.args[1])
               THEN last'.error = MissingWorkflowId
               ELSE ~Truthy(last'.args[2]) /\ last'.error = MissingTransactionId
     /\ (last'.op = "engine" /\ last'.call = "run") => Truthy(last'.transaction[1])
     /\ (last'.op = "engine" /\ last'.call = "getRunningTransaction") =>
          Truthy(last'.transaction[1]) /\ Truthy(last'.transaction[2])
    ]_vars

\* getRunningTransaction without transactionId threw on an instance that holds a
\* registration
C16_Witness ==
  /\ last.op = "error" /\ last.call = "getRunningTransaction"
  /\ last.error = MissingTransactionId
  /\ TotalRegs(subscribers, "A") > 0

\* C18: of the calls that were under way together for a transaction (none began
\* after the finish event of the transaction was notified), at most one notifies
\* onFinish
C18_ConcurrentFinishOnce ==
  (last.op = "return" /\ ~last.redundant) => finishes[last.transaction] <= 1

\* C19: the callback of every slot the engine fires invokes the custom handler of
\* that slot, and the events notified are those of the fired slots other than
\* onFinish, in order
C19_SlotHandlers ==
  last.op = "engine" =>
    /\ \A n \in 1..Len(last.fired) :
         last.fired[n] # "onFinish" => last.custom[n] = last.fired[n]
    /\ EventTypes(last.notified) = SelectSeq(last.fired, LAMBDA slot : slot # "onFinish")

\* C17: a notify of the facade invokes, within the call, every registration the
\* instance holds under the event's transaction or for the whole workflow,
\* whether the publish hands the envelope to the broker or not, and the call
\* ends without an error
C17_LocalDeliveryDespitePublish ==
  last.op = "notify" =>
    /\ \A p \in Places(last.inst) :
         (/\ p[1] = last.event.workflowId
          /\ \/ p[2] = AnySubscriber
             \/ Truthy(last.event.transactionId) /\ p[2] = last.event.transactionId)
           => \E n \in 1..Len(last.invoked) : last.invoked[n] = PlaceEntry(last.inst, p)
    /\ last.error = Undefined

\* a notify whose publish failed (the instance listens to the channel and got no
\* envelope) invoked the local subscribers
C17_Witness ==
  /\ last.op = "notify"
  /\ getChannelName(last.event.workflowId) \in channels[last.inst]
  /\ inbox[last.inst] = <<>>
  /\ last.invoked # <<>>

\* C20: the registrations an event is delivered to are invoked in the order of
\* their subscribe calls
C20_RegistrationOrder ==
  Delivered =>
    \A m, n \in 1..Len(last.invoked) :
      m < n => last.invoked[m].seq < last.invoked[n].seq

\* no field of the parts holds the delimiter
NoDelimiter(parts) ==
  \A f \in DOMAIN parts : Delimiter \notin Range(parts[f])

\* C15: for parts whose fields hold no ':', the parts decoded from the encoded key
\* are the parts given, and buildIdempotencyKeyAndParts returns the same key and
\* the same parts for the parts and for their encoded key
C15_KeyRoundTrip ==
  (/\ last.op = "rebuilt"
   /\ ~isString(last.args[1])
   /\ NoDelimiter(last.args[1]))
    => /\ last.decoded[2] = last.args[1]
       /\ last.decoded = last.result

\* parts with an empty field and a field of one character went through both forms
C15_Witness ==
  /\ last.op = "rebuilt"
  /\ ~isString(last.args[1])
  /\ NoDelimiter(last.args[1])
  /\ last.args[1].workflowId # <<>>
  /\ last.args[1].stepId = <<>>

\* the fields a key string holds: one more than its delimiters
FieldsHeld(text) == 1 + Count(text, LAMBDA ch : ch = Delimiter)

\* C21: the parts decoded from a key string hold a string in every field, and the
\* empty string in workflowId, transactionId or stepId when the key holds no
\* field for it
C21_MissingFieldsEmpty ==
  (last.op = "built" /\ isString(last.args[1])) =>
    LET held == FieldsHeld(last.args[1].string)
        parts == last.result[2]
    IN /\ \A f \in DOMAIN parts : parts[f] # NoField
       /\ held < 2 => parts.transactionId = <<>>
       /\ held < 3 => parts.stepId = <<>>

\* C22: a workflow the instance holds a registration of has its channel active
C22_RegistrationHasChannel ==
  \A workflowId \in WorkflowIds :
    WorkflowRegs(subscribers, "A", workflowId) > 0
      => getChannelName(workflowId) \in channels["A"]

\* C24: the id a registration is matched by is the subscriberId it was
\* subscribed with
C24_SubscriberIdFixed ==
  \A p \in Places("A") :
    handlerId["A"][PlaceEntry("A", p).handler] = PlaceEntry("A", p).sid

\* the envelopes of inbox b are envelopes of inbox a, in their order: those left
\* after the first ones were taken
LeftOf(b, a) ==
  /\ Len(b) <= Len(a)
  /\ \A n \in 1..Len(b) :
       LET was == a[n + Len(a) - Len(b)] IN
       /\ b[n].instanceId = was.instanceId
       /\ b[n].data = was.data

\* C23: handling a received envelope hands no envelope to the broker (every
\* inbox holds envelopes it held before), and a notify of the facade hands each
\* instance at most one envelope, which carries the id of the notifying instance
\* and its event
C23_NoRebroadcast ==
  [][/\ last'.op = "message" =>
          \A j \in Instances :
            IF j = last'.inst THEN LeftOf(inbox'[j], inbox[j]) ELSE inbox'[j] = inbox[j]
     /\ last'.op = "notify" =>
          \A j \in Instances :
            \/ inbox'[j] = inbox[j]
            \/ /\ Len(inbox'[j]) = Len(inbox[j]) + 1
               /\ SubSeq(inbox'[j], 1, Len(inbox[j])) = inbox[j]
               /\ inbox'[j][Len(inbox'[j])].instanceId = last'.inst
               /\ inbox'[j][Len(inbox'[j])].data = last'.event
    ]_vars

\* A handled the envelope of an event of B, invoked its subscribers, and the
\* broker holds nothing
C23_Witness ==
  /\ last.op = "message" /\ last.inst = "A" /\ last.origin = "B"
  /\ last.invoked # <<>>
  /\ \A j \in Instances : inbox[j] = <<>>

====
